---- MODULE Spec2Model ----
(***************************************************************************)
(* Tribler overlay MetadataHandler (src/Tribler/Overlay/MetadataHandler.py) *)
(* as a state machine: one handler instance, its index store (torrent_db),  *)
(* the torrent directory on disk, the capacity counter num_torrents, and    *)
(* the messages handed to handleMessage by the overlay transport.           *)
(*                                                                           *)
(* A call of handleMessage ends in position "returned", where the transport *)
(* has the call's result; a save (got_metadata -> save_torrent) is followed *)
(* through its positions on the way:                                        *)
(*   idle -> check_overflow -> write_torrent -> call_dlhelp_task -> returned *)
(* the record is in the index store from the first of them on.              *)
(***************************************************************************)
EXTENDS Integers, Sequences, FiniteSets, TLC

----------------------------------------------------------------------------
(* Bounds of the model *)

\* GLOBAL.max_num_torrents, a configuration value
MaxNumTorrents == 10
\* the index holds at register time between MaxNumTorrents - MaxInitBelow
\* and MaxNumTorrents + MaxInitOver records
MaxInitBelow == 2
MaxInitOver == 1
\* deleteTorrent calls that may fail in one eviction pass
MaxFailures == 1

(* Program constants *)

\* Max_Torrent_Size = 8*1024*1024
Max_Torrent_Size == 8388608
\* 24*60*60 in get_weight
DAY == 86400
\* len(overlay_infohash): the length of a well-formed identifier
InfohashLength == 20
\* time() at register, in seconds: day 20000 of the epoch
StartTime == 1728000000

----------------------------------------------------------------------------
(* Values *)

\* the identifiers peers talk about in messages
Hashes == {1, 2, 3}
\* the identifiers of the k records the index holds at register time
InitHashes(k) == {Cardinality(Hashes) + j : j \in 1..k}
\* a string that is not InfohashLength bytes long
ShortHash == 0
\* the peers of the overlay
Peers == {1, 2}

Min(a, b) == IF a <= b THEN a ELSE b

\* bdecode(metadata) of a payload: k = "torrent" decodes to a dictionary with
\* an 'info' key, "noinfo" to a dictionary without one, "garbage" does not
\* decode; "none" is no payload at all (Python's None)
Payload(k, info, announce, date, size) ==
    [k |-> k, info |-> info, announce |-> announce, date |-> date, size |-> size]
NoPayload == Payload("none", 0, 0, 0, 0)
Garbage == Payload("garbage", 0, 0, 0, 7)
NoInfo == Payload("noinfo", 0, 1, 0, 40)
\* a .torrent whose info section is the one named h, with announce URL a; the
\* first has no 'creation date' key (read as 0), the second was created the
\* day before StartTime
Torrent(h, a) ==
    Payload("torrent", h, a, IF a = 1 THEN 0 ELSE StartTime - DAY, 1000 + a)
\* the payloads peers send: one per identifier, and a second one for the
\* first identifier that differs from its first outside the info section
Torrents == {Torrent(h, 1) : h \in Hashes} \cup {Torrent(1, 2)}

\* sha(bencode(metainfo['info'])).digest(): the identifier an info section
\* hashes to; distinct info sections of the model have distinct digests
sha_bencode(info) == info

\* Tribler.utilities.isValidInfohash
HashLength(h) == IF h = ShortHash THEN InfohashLength - 1 ELSE InfohashLength
isValidInfohash(h) == HashLength(h) = InfohashLength

\* a file of the torrent directory: sha(torrent_hash).hexdigest()+'.torrent',
\* with stamp 0, or prefixed by str(time()) + '_' with stamp = time()
FileName(h, stamp) == [hash |-> h, stamp |-> stamp]
None == FileName(0, 0)

\* an index record: the fields addTorrentToDB sets and limit_space reads
Record(name, status, retry, relevance, date) ==
    [torrent_name |-> name, status |-> status, retry_number |-> retry,
     relevance |-> relevance, creation_date |-> date]

\* a message as handleMessage gets it. t is the type byte ("EMPTY": the
\* message has no bytes at all); enc says what bdecode(message[1:]) makes of
\* the rest: "ok", "garbage" (bdecode raises), "notdict", "nohash" and
\* "nometadata" (a dictionary that lacks the key)
Message(t, enc, h, m) == [t |-> t, enc |-> enc, torrent_hash |-> h, metadata |-> m]
NoMessage == Message("NONE", "none", 0, NoPayload)
\* the requests peers send
Requests ==
    {Message("GET_METADATA", "garbage", 0, NoPayload),
     Message("GET_METADATA", "ok", ShortHash, NoPayload)}
    \cup {Message("GET_METADATA", "ok", h, NoPayload) : h \in Hashes}
\* the other messages: of no or an unknown type; METADATA that does not
\* decode to a dictionary with both keys; METADATA with a malformed
\* identifier, with a payload that is no .torrent, with the payload of the
\* next identifier, and with a payload of the identifier
Others ==
    {Message("EMPTY", "none", 0, NoPayload), Message("OTHER", "none", 0, NoPayload)}
    \cup {Message("METADATA", e, 0, NoPayload) : e \in {"garbage", "notdict", "nohash"}}
    \cup {Message("METADATA", "nometadata", 1, NoPayload),
          Message("METADATA", "ok", ShortHash, Torrent(1, 1)),
          Message("METADATA", "ok", 1, Garbage),
          Message("METADATA", "ok", 1, NoInfo)}
    \cup {Message("METADATA", "ok", h, Torrent((h % Cardinality(Hashes)) + 1, 1)) : h \in Hashes}
    \cup {Message("METADATA", "ok", m.info, m) : m \in Torrents}
\* the calls of handleMessage: requests come from every peer, the other
\* messages, whose sender the handler does not read, from the first
Calls == (Peers \X Requests) \cup ({1} \X Others)

----------------------------------------------------------------------------
VARIABLES
    torrent_db,     \* the index store: identifier -> record
    files,          \* the torrent directory: file name -> bytes written
    num_torrents,   \* self.num_torrents
    now,            \* time(): the messages of a run arrive within one reading of it
    pc,             \* position of the handler
    permid,         \* the peer of the message being (or last) handled
    message,        \* the message being (or last) handled
    file_name,      \* save_torrent's file_name
    result,         \* what the last handleMessage call returned
    sent,           \* what the call handed to secure_overlay.addTask
    notified,       \* what the call handed to dlhelper.call_dlhelp_task
    before,         \* the index store as it was when save_torrent began
    wrote,          \* how save_torrent's write_torrent ended
    recounted,      \* save_torrent's check_overflow counted the index records again
    passes          \* the eviction passes of save_torrent's check_overflow

\* the table model of the GUI (src/TriblerGUI/widgets/tablecontentmodel.py)
VARIABLES
    data_items,     \* self.data_items: the rows of the table, first row first
    item_uid_map    \* self.item_uid_map: unique id -> row

handler_vars == <<torrent_db, files, num_torrents, now, pc, permid, message, file_name,
                  result, sent, notified, before, wrote, recounted, passes>>
model_vars == <<data_items, item_uid_map>>

\* handleMessage running on several threads of the transport at once
VARIABLES
    thr,            \* thread -> its position in save_torrent and its local values
    torrent_list    \* self.torrent_list

thread_vars == <<thr, torrent_list>>
vars == <<handler_vars, model_vars, thread_vars>>


----------------------------------------------------------------------------
(* The collaborators: index store, file system *)

\* f without the keys in ks
Without(f, ks) == [x \in DOMAIN f \ ks |-> f[x]]
\* f with key k set to v
With(f, k, v) == [x \in DOMAIN f \cup {k} |-> IF x = k THEN v ELSE f[x]]

\* torrent_db.addTorrent(torrent_hash, torrent, new_metadata=True, updateFlag=True):
\* an upsert; a field the new dictionary does not carry (relevance) is kept
addTorrent(db, h, torrent) ==
    With(db, h, IF h \in DOMAIN db
                THEN [torrent EXCEPT !.relevance = db[h].relevance]
                ELSE torrent)

\* torrent_db.deleteTorrent(infohash, delete_file=True, updateFlag=True): removes
\* the payload file and the index entry; a delete that fails leaves both and
\* returns to the caller
deleteTorrent(s, h, ok) ==
    IF ok /\ h \in DOMAIN s.db
    THEN [s EXCEPT !.db = Without(s.db, {h}),
                   !.fs = Without(s.fs, {s.db[h].torrent_name})]
    ELSE s

\* torrent_db.getRecommendedTorrents(light=True): the records of the index
getRecommendedTorrents(db) == db

----------------------------------------------------------------------------
(* MetadataHandler *)

\* int(x / y) of Python: the quotient truncated towards zero
TruncDiv(x, y) == IF x >= 0 THEN x \div y ELSE -((-x) \div y)

StatusValue(status_key) ==
    CASE status_key = "dead" -> 2
      [] status_key = "unknown" -> 1
      [] status_key = "good" -> 0
      [] OTHER -> 2

get_weight(torrent, t) ==
    LET status == StatusValue(torrent.status)
        retry_number == Min(torrent.retry_number, 99)
        relevance == Min(torrent.relevance, 99)
        date == torrent.creation_date
        rel_date == Min(TruncDiv(t - date, DAY), 999)
    IN status * 10^7 + retry_number * 10^5 + (99 - relevance) * 10^3 + rel_date

\* num_delete of limit_space
NumDelete(num) ==
    LET num_delete == num - MaxNumTorrents + MaxNumTorrents \div 10
    IN IF num_delete <= 0 THEN 1 ELSE num_delete

\* the records of ids no other record of ids outweighs
Heaviest(list, ids, t) ==
    {a \in ids : \A b \in ids : get_weight(list[a], t) >= get_weight(list[b], t)}

\* sort_dictlist(torrent_list, 'weight', order='decrease')[:n]: the first n
\* identifiers of the list in decreasing weight, equal weights in any order
RECURSIVE SortedPrefix(_, _, _, _)
SortedPrefix(list, ids, n, t) ==
    IF n <= 0 \/ ids = {} THEN {<<>>}
    ELSE UNION {{<<a>> \o rest : rest \in SortedPrefix(list, ids \ {a}, n - 1, t)} :
                a \in Heaviest(list, ids, t)}

Range(seq) == {seq[i] : i \in 1..Len(seq)}

\* the loop of limit_space, left at the first deleteTorrent call that fails
RECURSIVE DeleteEach_abort(_, _, _)
DeleteEach_abort(s, selected, failing) ==
    IF selected = <<>> \/ Head(selected) \in failing THEN s
    ELSE DeleteEach_abort(deleteTorrent(s, Head(selected), TRUE), Tail(selected), failing)

\* the loop of limit_space over the selected records: the deleteTorrent calls
\* for the identifiers of failing return without deleting
RECURSIVE DeleteEach(_, _, _)
DeleteEach(s, selected, failing) ==
    IF selected = <<>> THEN s
    ELSE DeleteEach(deleteTorrent(s, Head(selected), Head(selected) \notin failing),
                    Tail(selected), failing)

\* what check_overflow works on: the index store, the torrent directory and
\* self.num_torrents, and what it did
CheckState(db, fs, num) ==
    [db |-> db, fs |-> fs, num |-> num, recounted |-> FALSE, passes |-> <<>>]

\* the least weight among the records of ids
LeastWeight(list, ids, t) ==
    CHOOSE w \in {get_weight(list[a], t) : a \in ids} :
        \A b \in ids : get_weight(list[b], t) >= w

\* one eviction pass over self.torrent_list = list with self.num_torrents =
\* s.num, at time t; every choice of order among equal weights and of failing
\* deleteTorrent calls
limit_space(s, list, t) ==
    UNION {{LET after == DeleteEach(s, selected, failing)
            IN [after EXCEPT
                   !.passes = Append(s.passes,
                                     [found |-> Cardinality(DOMAIN list),
                                      counter |-> s.num,
                                      selected |-> Range(selected),
                                      cut |-> LeastWeight(list, Range(selected), t),
                                      failed |-> failing,
                                      removed |-> DOMAIN s.db \ DOMAIN after.db,
                                      left |-> Cardinality(DOMAIN after.db)])] :
            failing \in {f \in SUBSET Range(selected) : Cardinality(f) <= MaxFailures}} :
           selected \in SortedPrefix(list, DOMAIN list, NumDelete(s.num), t)}

\* check_overflow from "self.num_torrents += 1" on, with the second comparison
\* with GLOBAL.max_num_torrents turned round
check_overflow_count_inverted(s, t, update) ==
    LET n == s.num + 1 IN
    IF n > MaxNumTorrents
    THEN LET list == getRecommendedTorrents(s.db)
             n2 == IF update THEN Cardinality(DOMAIN list) ELSE n
             s2 == [s EXCEPT !.num = n2, !.recounted = s.recounted \/ update]
         IN IF n2 < MaxNumTorrents THEN limit_space(s2, list, t) ELSE {s2}
    ELSE {[s EXCEPT !.num = n]}

\* check_overflow from "self.num_torrents += 1" on
check_overflow_count(s, t, update) ==
    LET n == s.num + 1 IN
    IF n > MaxNumTorrents
    THEN LET list == getRecommendedTorrents(s.db)
             n2 == IF update THEN Cardinality(DOMAIN list) ELSE n
             s2 == [s EXCEPT !.num = n2, !.recounted = s.recounted \/ update]
         IN IF n2 > MaxNumTorrents THEN limit_space(s2, list, t) ELSE {s2}
    ELSE {[s EXCEPT !.num = n]}

\* check_overflow(update): the states it can return in
RECURSIVE check_overflow(_, _, _)
check_overflow(s, t, update) ==
    LET started ==
            IF s.num < 0
            THEN check_overflow(
                     [s EXCEPT !.num = Cardinality(DOMAIN getRecommendedTorrents(s.db))],
                     t, FALSE)
            ELSE {s}
    IN UNION {check_overflow_count(s1, t, update) : s1 \in started}

find_torrent(db, fs, torrent_hash) ==
    IF torrent_hash \notin DOMAIN db THEN None
    ELSE IF db[torrent_hash].torrent_name \in DOMAIN fs
         THEN db[torrent_hash].torrent_name
         ELSE None

\* read_torrent refusing a file of Max_Torrent_Size bytes too
read_torrent_strict(fs, torrent_path) ==
    IF torrent_path \notin DOMAIN fs THEN NoPayload
    ELSE IF fs[torrent_path].size >= Max_Torrent_Size THEN NoPayload
    ELSE fs[torrent_path]

read_torrent(fs, torrent_path) ==
    IF torrent_path \notin DOMAIN fs THEN NoPayload
    ELSE IF fs[torrent_path].size > Max_Torrent_Size THEN NoPayload
    ELSE fs[torrent_path]

\* valid_metadata without the comparison of the two hashes
valid_metadata_unchecked(torrent_hash, metadata) ==
    IF metadata.k # "torrent" THEN "raise" ELSE "True"

\* "True", "False", or "raise" when bdecode or metainfo['info'] raises
valid_metadata(torrent_hash, metadata) ==
    IF metadata.k # "torrent" THEN "raise"
    ELSE IF sha_bencode(metadata.info) # torrent_hash THEN "False"
    ELSE "True"

get_filename(fs, torrent_hash, t) ==
    IF FileName(torrent_hash, 0) \in DOMAIN fs
    THEN FileName(torrent_hash, t)
    ELSE FileName(torrent_hash, 0)

\* the dictionary addTorrentToDB builds for the index
NewTorrent(name, metadata) == Record(name, "unknown", 0, 0, metadata.date)

\* write_torrent: "written", or "failed": os.mkdir or open raises, the
\* exception is printed and swallowed, and no file is made
WriteOutcomes == {"written", "failed"}
write_torrent(fs, metadata, name, outcome) ==
    IF outcome = "written" THEN With(fs, name, metadata) ELSE fs

----------------------------------------------------------------------------
(* The state after register() *)

\* RemoteTableModel.__init__: no rows, no unique ids
InitModel ==
    /\ data_items = <<>>
    /\ item_uid_map = <<>>

\* handleMessage is called by one thread, whose position is pc
NoThreads ==
    /\ thr = <<>>
    /\ torrent_list = <<>>

\* the records register() finds in the index: the first dead, the second
\* unknown, the others good, all with their payload file
InitRecord(h) ==
    LET j == h - Cardinality(Hashes)
    IN Record(FileName(h, 0),
              IF j = 1 THEN "dead" ELSE IF j = 2 THEN "unknown" ELSE "good",
              j, 0, 0)
InitPayload(h) == Payload("torrent", h, 1, 0, 1001)

InitSizes ==
    {k \in (MaxNumTorrents - MaxInitBelow)..(MaxNumTorrents + MaxInitOver) : k >= 0}

Init ==
    /\ \E k \in InitSizes :
        /\ torrent_db = [h \in InitHashes(k) |-> InitRecord(h)]
        /\ files = [n \in {FileName(h, 0) : h \in InitHashes(k)} |-> InitPayload(n.hash)]
    /\ num_torrents = -1
    /\ now = StartTime
    /\ pc = "idle"
    /\ permid = 0
    /\ message = NoMessage
    /\ file_name = None
    /\ result = "None"
    /\ sent = <<>>
    /\ notified = <<>>
    /\ before = torrent_db
    /\ wrote = "no"
    /\ recounted = FALSE
    /\ passes = <<>>
    /\ InitModel
    /\ NoThreads

----------------------------------------------------------------------------
(* Actions *)

\* the call returns r without having changed the handler's state
Return(r, out) ==
    /\ result' = r
    /\ sent' = out
    /\ pc' = "returned"
    /\ UNCHANGED <<torrent_db, files, num_torrents, file_name>>

\* send_metadata answering the first peer of the overlay, whoever asked
send_metadata_first(conn, msg) ==
    IF msg.enc # "ok" THEN Return("False", <<>>)
    ELSE IF ~isValidInfohash(msg.torrent_hash) THEN Return("False", <<>>)
    ELSE LET torrent_path == find_torrent(torrent_db, files, msg.torrent_hash)
             torrent_data == read_torrent(files, torrent_path)
         IN IF torrent_path = None THEN Return("False", <<>>)
            ELSE IF torrent_data # NoPayload /\ torrent_data.size > 0
                 THEN Return("True", <<[permid |-> 1,
                                        torrent_hash |-> msg.torrent_hash,
                                        metadata |-> torrent_data]>>)
                 ELSE Return("True", <<>>)

send_metadata(conn, msg) ==
    IF msg.enc # "ok" THEN Return("False", <<>>)
    ELSE IF ~isValidInfohash(msg.torrent_hash) THEN Return("False", <<>>)
    ELSE LET torrent_path == find_torrent(torrent_db, files, msg.torrent_hash)
             torrent_data == read_torrent(files, torrent_path)
         IN IF torrent_path = None THEN Return("False", <<>>)
            ELSE IF torrent_data # NoPayload /\ torrent_data.size > 0
                 THEN Return("True", <<[permid |-> conn,
                                        torrent_hash |-> msg.torrent_hash,
                                        metadata |-> torrent_data]>>)
                 ELSE Return("True", <<>>)

\* save_torrent up to the call of check_overflow: get_filename, and
\* addTorrentToDB up to torrent_db.addTorrent
save_torrent(torrent_hash, metadata) ==
    LET name == get_filename(files, torrent_hash, now)
    IN /\ file_name' = name
       /\ torrent_db' = addTorrent(torrent_db, torrent_hash, NewTorrent(name, metadata))
       /\ pc' = "check_overflow"
       /\ result' = "None"
       /\ sent' = <<>>
       /\ UNCHANGED <<files, num_torrents>>

got_metadata(conn, msg) ==
    IF msg.enc \in {"garbage", "notdict"} THEN Return("False", <<>>)
    ELSE IF msg.enc = "nohash" THEN Return("False", <<>>)
    ELSE IF ~isValidInfohash(msg.torrent_hash) THEN Return("False", <<>>)
    ELSE IF msg.enc = "nometadata" THEN Return("False", <<>>)
    ELSE IF valid_metadata(msg.torrent_hash, msg.metadata) # "True"
         THEN Return("False", <<>>)
    ELSE save_torrent(msg.torrent_hash, msg.metadata)

handleMessage ==
    /\ UNCHANGED <<model_vars, thread_vars>>
    /\ pc = "idle"
    /\ \E call \in Calls :
        LET p == call[1]
            msg == call[2]
        IN /\ permid' = p
           /\ message' = msg
           /\ UNCHANGED <<now, notified, before, wrote, recounted, passes>>
           /\ CASE msg.t = "EMPTY" -> Return("IndexError", <<>>)
                [] msg.t = "GET_METADATA" -> send_metadata(p, msg)
                [] msg.t = "METADATA" -> got_metadata(p, msg)
                [] OTHER -> Return("False", <<>>)

\* addTorrentToDB: self.check_overflow(); self.torrent_db.sync()
CheckOverflow ==
    /\ UNCHANGED <<model_vars, thread_vars>>
    /\ pc = "check_overflow"
    /\ \E s \in check_overflow(CheckState(torrent_db, files, num_torrents), now, TRUE) :
        /\ torrent_db' = s.db
        /\ files' = s.fs
        /\ num_torrents' = s.num
        /\ recounted' = s.recounted
        /\ passes' = s.passes
    /\ pc' = "write_torrent"
    /\ UNCHANGED <<now, permid, message, file_name, result, sent, notified, before, wrote>>

\* save_torrent: self.write_torrent(metadata, self.config_dir, file_name)
WriteTorrent ==
    /\ UNCHANGED <<model_vars, thread_vars>>
    /\ pc = "write_torrent"
    /\ \E outcome \in WriteOutcomes :
        /\ files' = write_torrent(files, message.metadata, file_name, outcome)
        /\ wrote' = outcome
    /\ pc' = "call_dlhelp_task"
    /\ UNCHANGED <<torrent_db, num_torrents, now, permid, message, file_name, result,
                   sent, notified, before, recounted, passes>>

\* got_metadata with an except clause that puts the index store back as it
\* was before save_torrent
CallDlhelpTask_rollback ==
    /\ UNCHANGED <<model_vars, thread_vars>>
    /\ pc = "call_dlhelp_task"
    /\ \/ /\ notified' = <<[torrent_hash |-> message.torrent_hash,
                            metadata |-> message.metadata]>>
          /\ result' = "True"
          /\ torrent_db' = torrent_db
       \/ /\ notified' = <<>>
          /\ result' = "False"
          /\ torrent_db' = before
    /\ pc' = "returned"
    /\ file_name' = None
    /\ before' = torrent_db'
    /\ wrote' = "no"
    /\ recounted' = FALSE
    /\ passes' = <<>>
    /\ UNCHANGED <<files, num_torrents, now, permid, message, sent>>

\* got_metadata: self.dlhelper.call_dlhelp_task(torrent_hash, metadata), which
\* returns or raises, and the return
CallDlhelpTask ==
    /\ UNCHANGED <<model_vars, thread_vars>>
    /\ pc = "call_dlhelp_task"
    /\ \/ /\ notified' = <<[torrent_hash |-> message.torrent_hash,
                            metadata |-> message.metadata]>>
          /\ result' = "True"
       \/ /\ notified' = <<>>
          /\ result' = "False"
    /\ pc' = "returned"
    /\ file_name' = None
    /\ before' = torrent_db
    /\ wrote' = "no"
    /\ recounted' = FALSE
    /\ passes' = <<>>
    /\ UNCHANGED <<torrent_db, files, num_torrents, now, permid, message, sent>>

\* the transport has the result; the handler waits for the next message
NextMessage ==
    /\ UNCHANGED <<model_vars, thread_vars>>
    /\ pc = "returned"
    /\ pc' = "idle"
    /\ permid' = 0
    /\ message' = NoMessage
    /\ result' = "None"
    /\ sent' = <<>>
    /\ notified' = <<>>
    /\ UNCHANGED <<torrent_db, files, num_torrents, now, file_name, before, wrote,
                   recounted, passes>>

Next ==
    handleMessage \/ CheckOverflow \/ WriteTorrent \/ CallDlhelpTask \/ NextMessage

Spec == Init /\ [][Next]_vars

\* register() on an index whose records are those of the first two
\* identifiers, their files of Max_Torrent_Size bytes or one byte more
BigSizes == {Max_Torrent_Size, Max_Torrent_Size + 1}
BigHashes == {1, 2}
InitRead ==
    /\ torrent_db = [h \in BigHashes |-> Record(FileName(h, 0), "good", 0, 0, 0)]
    /\ \E size \in [BigHashes -> BigSizes] :
           files = [n \in {FileName(h, 0) : h \in BigHashes} |->
                        Payload("torrent", n.hash, 1, 0, size[n.hash])]
    /\ num_torrents = -1
    /\ now = StartTime
    /\ pc = "idle"
    /\ permid = 0
    /\ message = NoMessage
    /\ file_name = None
    /\ result = "None"
    /\ sent = <<>>
    /\ notified = <<>>
    /\ before = torrent_db
    /\ wrote = "no"
    /\ recounted = FALSE
    /\ passes = <<>>
    /\ InitModel
    /\ NoThreads

SpecRead == InitRead /\ [][Next]_vars

\* the records an eviction pass may meet: every status (one of them not in
\* status_value), retry_number and relevance at either end of their ranges,
\* created at the epoch or two days after StartTime
WeighedRecords(h) ==
    {Record(FileName(h, 0), status, rr[1], rr[2], date) :
        status \in {"dead", "lost", "unknown", "good"},
        rr \in {<<0, 99>>, <<99, 0>>},
        date \in {0, StartTime + 2 * DAY}}
\* check_overflow has counted MaxNumTorrents + 1 records, those of the
\* identifiers of Hashes among them, and is about to call limit_space
InitWeights ==
    /\ \E drawn \in [Hashes -> UNION {WeighedRecords(h) : h \in Hashes}] :
          /\ \A h \in Hashes : drawn[h] \in WeighedRecords(h)
          /\ torrent_db = [h \in Hashes \cup InitHashes(MaxNumTorrents + 1 - Cardinality(Hashes)) |->
                              IF h \in Hashes THEN drawn[h]
                              ELSE Record(FileName(h, 0), "good", 0, 0, 0)]
    /\ files = [n \in {FileName(h, 0) : h \in DOMAIN torrent_db} |-> InitPayload(n.hash)]
    /\ num_torrents = Cardinality(DOMAIN torrent_db)
    /\ now = StartTime
    /\ pc = "limit_space"
    /\ permid = 0
    /\ message = NoMessage
    /\ file_name = None
    /\ result = "None"
    /\ sent = <<>>
    /\ notified = <<>>
    /\ before = torrent_db
    /\ wrote = "no"
    /\ recounted = TRUE
    /\ passes = <<>>
    /\ InitModel
    /\ NoThreads

\* check_overflow: self.limit_space()
LimitSpace ==
    /\ UNCHANGED <<model_vars, thread_vars>>
    /\ pc = "limit_space"
    /\ \E s \in limit_space(CheckState(torrent_db, files, num_torrents),
                             getRecommendedTorrents(torrent_db), now) :
        /\ torrent_db' = s.db
        /\ files' = s.fs
        /\ passes' = s.passes
    /\ pc' = "write_torrent"
    /\ UNCHANGED <<num_torrents, now, permid, message, file_name, result, sent, notified,
                   before, wrote, recounted>>

NextWeights == LimitSpace

SpecWeights == InitWeights /\ [][NextWeights]_vars

----------------------------------------------------------------------------
(* RemoteTableModel / TriblerContentModel *)

\* the longest list add_items is called with
MaxBatch == 2
\* the calls of add_items stop when the table has this many rows
MaxRows == 4

\* the infohashes of the items the GUI is given; NoUid stands for an item with
\* no 'infohash' key (and neither 'public_key' nor 'id')
Uids == {"a", "b", "c"}
NoUid == "none"
\* an item as the GUI is given it, with a health not yet checked; Checked is
\* the health a torrent health check reports later
Unchecked == "unknown"
Checked == "good"
Item(uid) == [infohash |-> uid, health |-> Unchecked]
Items == {Item(uid) : uid \in Uids \cup {NoUid}}
\* the lists add_items is called with
Batches == UNION {[1..n -> Items] : n \in 0..MaxBatch}

\* TriblerContentModel.get_item_uid: None for an item without the keys
get_item_uid(item) == item.infohash

\* the first loop of add_items over new_items, from the state acc of
\* new_items_map, unique_items and insert_index
RECURSIVE UniqueItems(_, _, _)
UniqueItems(new_items, known, acc) ==
    IF new_items = <<>> THEN acc
    ELSE LET item == Head(new_items)
             item_uid == get_item_uid(item)
         IN IF item_uid # NoUid /\ item_uid \notin DOMAIN known
            THEN UniqueItems(Tail(new_items), known,
                     [new_items_map |-> With(acc.new_items_map, item_uid, acc.insert_index),
                      unique_items |-> Append(acc.unique_items, item),
                      insert_index |-> acc.insert_index + 1])
            ELSE UniqueItems(Tail(new_items), known, acc)

\* the second loop of add_items, for remote items: the rows of the items
\* item_uid_map knows move down by insert_index
ShiftedRows(new_items_map, insert_index) ==
    LET old == {get_item_uid(data_items[i]) : i \in 1..Len(data_items)}
                   \cap DOMAIN item_uid_map
    IN [uid \in DOMAIN new_items_map \cup old |->
            IF uid \in old THEN insert_index + item_uid_map[uid]
            ELSE new_items_map[uid]]

add_items(new_items, remote) ==
    IF new_items = <<>> THEN UNCHANGED model_vars
    ELSE LET first == UniqueItems(new_items, item_uid_map,
                          [new_items_map |-> <<>>, unique_items |-> <<>>,
                           insert_index |-> IF remote THEN 0 ELSE Len(data_items)])
         IN IF first.unique_items = <<>> THEN UNCHANGED model_vars
            ELSE /\ data_items' = IF remote THEN first.unique_items \o data_items
                                  ELSE data_items \o first.unique_items
                 /\ item_uid_map' = IF remote
                                    THEN ShiftedRows(first.new_items_map, first.insert_index)
                                    ELSE first.new_items_map

\* a call of add_items, with local items or remote ones
AddItems ==
    /\ UNCHANGED <<handler_vars, thread_vars>>
    /\ \E new_items \in Batches, remote \in BOOLEAN :
          /\ Len(data_items) + Len(new_items) <= MaxRows
          /\ add_items(new_items, remote)

\* the dictionaries update_torrent_info is called with
UpdateDicts == {[infohash |-> uid, health |-> Checked] : uid \in Uids}

\* dict.get: None for a key the dictionary does not have
NoRow == -1
Get(map, key) == IF key \in DOMAIN map THEN map[key] ELSE NoRow

\* update_torrent_info: data_items after the call; "if row" is false for
\* None and for 0, and dict.update sets every key of update_dict
update_torrent_info(items, map, update_dict) ==
    LET row == Get(map, update_dict.infohash)
    IN IF row # NoRow /\ row # 0
       THEN [items EXCEPT ![row + 1] =
                [infohash |-> update_dict.infohash, health |-> update_dict.health]]
       ELSE items

\* a call of update_torrent_info
UpdateTorrentInfo ==
    /\ UNCHANGED <<handler_vars, thread_vars>>
    /\ \E update_dict \in UpdateDicts :
          data_items' = update_torrent_info(data_items, item_uid_map, update_dict)
    /\ UNCHANGED item_uid_map

\* TriblerContentModel.reset, RemoteTableModel.reset
Reset ==
    /\ UNCHANGED <<handler_vars, thread_vars>>
    /\ data_items' = <<>>
    /\ item_uid_map' = <<>>

\* a table model next to a handler that gets no message
InitTable ==
    /\ InitModel
    /\ NoThreads
    /\ torrent_db = <<>>
    /\ files = <<>>
    /\ num_torrents = -1
    /\ now = StartTime
    /\ pc = "idle"
    /\ permid = 0
    /\ message = NoMessage
    /\ file_name = None
    /\ result = "None"
    /\ sent = <<>>
    /\ notified = <<>>
    /\ before = <<>>
    /\ wrote = "no"
    /\ recounted = FALSE
    /\ passes = <<>>

NextTable == AddItems \/ UpdateTorrentInfo \/ Reset

SpecTable == InitTable /\ [][NextTable]_vars

----------------------------------------------------------------------------
(* save_torrent on two threads *)

\* the threads; thread t handles a METADATA message for identifier t
Threads == {1, 2}

\* a thread at position p; frames holds the update argument of each
\* check_overflow call it is in, counted the value it read of
\* self.num_torrents, victims self.torrent_list[:num_delete]
Thread(p, frames, counted, victims) ==
    [pc |-> p, frames |-> frames, counted |-> counted, victims |-> victims]

At(t, p) == thr[t].pc = p
Goto(t, p) == thr' = [thr EXCEPT ![t].pc = p]
Shared == <<torrent_db, files, num_torrents, torrent_list>>
Unshared == <<now, pc, permid, message, file_name, result, sent, notified, before,
              wrote, recounted, passes, model_vars>>

\* save_torrent: get_filename; addTorrentToDB up to torrent_db.addTorrent
T_addTorrent(t) ==
    /\ At(t, "addTorrent")
    /\ torrent_db' = addTorrent(torrent_db, t,
                          NewTorrent(get_filename(files, t, now), Torrent(t, 1)))
    /\ thr' = [thr EXCEPT ![t].pc = "182", ![t].frames = <<TRUE>>]
    /\ UNCHANGED <<files, num_torrents, torrent_list, Unshared>>

\* 182: if self.num_torrents < 0
T_182(t) ==
    /\ At(t, "182")
    /\ Goto(t, IF num_torrents < 0 THEN "183" ELSE "187")
    /\ UNCHANGED <<Shared, Unshared>>

\* 183: self.torrent_list = self.torrent_db.getRecommendedTorrents(light=True)
T_183(t) ==
    /\ At(t, "183")
    /\ torrent_list' = getRecommendedTorrents(torrent_db)
    /\ Goto(t, "184")
    /\ UNCHANGED <<torrent_db, files, num_torrents, Unshared>>

\* 184: self.num_torrents = len(self.torrent_list)
\* 185: self.check_overflow(update=False)
T_184(t) ==
    /\ At(t, "184")
    /\ num_torrents' = Cardinality(DOMAIN torrent_list)
    /\ thr' = [thr EXCEPT ![t].pc = "182", ![t].frames = Append(@, FALSE)]
    /\ UNCHANGED <<torrent_db, files, torrent_list, Unshared>>

\* 187: self.num_torrents += 1, the read
T_187_read(t) ==
    /\ At(t, "187")
    /\ thr' = [thr EXCEPT ![t].pc = "187w", ![t].counted = num_torrents]
    /\ UNCHANGED <<Shared, Unshared>>

\* 187: self.num_torrents += 1, the write
\* 188: if self.num_torrents > GLOBAL.max_num_torrents
\* 190: if update
T_187_write(t) ==
    /\ At(t, "187w")
    /\ num_torrents' = thr[t].counted + 1
    /\ Goto(t, IF num_torrents' > MaxNumTorrents
                THEN IF thr[t].frames[Len(thr[t].frames)] THEN "191" ELSE "193"
                ELSE "return")
    /\ UNCHANGED <<torrent_db, files, torrent_list, Unshared>>

\* 191: self.torrent_list = self.torrent_db.getRecommendedTorrents(light=True)
T_191(t) ==
    /\ At(t, "191")
    /\ torrent_list' = getRecommendedTorrents(torrent_db)
    /\ Goto(t, "192")
    /\ UNCHANGED <<torrent_db, files, num_torrents, Unshared>>

\* 192: self.num_torrents = len(self.torrent_list)
T_192(t) ==
    /\ At(t, "192")
    /\ num_torrents' = Cardinality(DOMAIN torrent_list)
    /\ Goto(t, "193")
    /\ UNCHANGED <<torrent_db, files, torrent_list, Unshared>>

\* 193: if self.num_torrents > GLOBAL.max_num_torrents
T_193(t) ==
    /\ At(t, "193")
    /\ Goto(t, IF num_torrents > MaxNumTorrents THEN "216" ELSE "return")
    /\ UNCHANGED <<Shared, Unshared>>

\* 216-223: limit_space up to the slice self.torrent_list[:num_delete]
T_216(t) ==
    /\ At(t, "216")
    /\ \E selected \in SortedPrefix(torrent_list, DOMAIN torrent_list,
                                     NumDelete(num_torrents), now) :
          thr' = [thr EXCEPT ![t].pc = "224", ![t].victims = selected]
    /\ UNCHANGED <<Shared, Unshared>>

\* 223-225: the deleteTorrent calls of limit_space, none of them failing
T_224(t) ==
    /\ At(t, "224")
    /\ LET s == DeleteEach(CheckState(torrent_db, files, num_torrents),
                           thr[t].victims, {})
       IN torrent_db' = s.db /\ files' = s.fs
    /\ thr' = [thr EXCEPT ![t].pc = "return", ![t].victims = <<>>]
    /\ UNCHANGED <<num_torrents, torrent_list, Unshared>>

\* check_overflow returns, to line 187 of the call that made it
T_return_inner(t) ==
    /\ At(t, "return")
    /\ Len(thr[t].frames) > 1
    /\ thr' = [thr EXCEPT ![t].pc = "187", ![t].frames = SubSeq(@, 1, Len(@) - 1)]
    /\ UNCHANGED <<Shared, Unshared>>

\* check_overflow returns to addTorrentToDB, and save_torrent writes the file
T_return(t) ==
    /\ At(t, "return")
    /\ Len(thr[t].frames) = 1
    /\ files' = write_torrent(files, Torrent(t, 1), get_filename(files, t, now), "written")
    /\ thr' = [thr EXCEPT ![t].pc = "done", ![t].frames = <<>>]
    /\ UNCHANGED <<torrent_db, num_torrents, torrent_list, Unshared>>

\* after register(): the transport calls handleMessage on every thread
InitThreads ==
    /\ \E k \in InitSizes :
        /\ torrent_db = [h \in InitHashes(k) |-> InitRecord(h)]
        /\ files = [n \in {FileName(h, 0) : h \in InitHashes(k)} |-> InitPayload(n.hash)]
    /\ num_torrents = -1
    /\ torrent_list = <<>>
    /\ thr = [t \in Threads |-> Thread("addTorrent", <<>>, 0, <<>>)]
    /\ now = StartTime
    /\ pc = "idle"
    /\ permid = 0
    /\ message = NoMessage
    /\ file_name = None
    /\ result = "None"
    /\ sent = <<>>
    /\ notified = <<>>
    /\ before = torrent_db
    /\ wrote = "no"
    /\ recounted = FALSE
    /\ passes = <<>>
    /\ InitModel

NextThreads ==
    \E t \in Threads :
        \/ T_addTorrent(t)
        \/ T_182(t)
        \/ T_183(t)
        \/ T_184(t)
        \/ T_187_read(t)
        \/ T_187_write(t)
        \/ T_191(t)
        \/ T_192(t)
        \/ T_193(t)
        \/ T_216(t)
        \/ T_224(t)
        \/ T_return_inner(t)
        \/ T_return(t)

SpecThreads == InitThreads /\ [][NextThreads]_vars

----------------------------------------------------------------------------
(* Properties *)

Records == Cardinality(DOMAIN torrent_db)
CeilDiv(a, b) == (a + b - 1) \div b

\* msg is METADATA with a well-formed torrent_hash that is not the hash of the
\* info section of its metadata
IsMismatch(msg) ==
    /\ msg.t = "METADATA"
    /\ msg.enc = "ok"
    /\ isValidInfohash(msg.torrent_hash)
    /\ msg.metadata.k = "torrent"
    /\ sha_bencode(msg.metadata.info) # msg.torrent_hash

\* C1: a METADATA message whose well-formed torrent_hash differs from the hash
\* of the info section of its metadata is dropped in one step: the call
\* returns False, the index store, num_torrents and the files are as they
\* were, nothing is saved and the download helper is not notified.
C1_MismatchDropped ==
    [][(pc = "idle" /\ IsMismatch(message'))
          => /\ pc' = "returned"
             /\ result' = "False"
             /\ torrent_db' = torrent_db
             /\ num_torrents' = num_torrents
             /\ files' = files
             /\ notified' = <<>>]_vars

\* a mismatching METADATA message has been dropped by a handler that has
\* saved before
C1_Witness ==
    /\ pc = "returned"
    /\ IsMismatch(message)
    /\ result = "False"
    /\ num_torrents >= 0

\* msg is GET_METADATA for a well-formed identifier find_torrent finds no
\* file for
IsUnknownRequest(msg) ==
    /\ msg.t = "GET_METADATA"
    /\ msg.enc = "ok"
    /\ isValidInfohash(msg.torrent_hash)
    /\ find_torrent(torrent_db, files, msg.torrent_hash) = None

\* C2: a GET_METADATA for a well-formed identifier that has no index record,
\* or whose indexed file does not exist, hands nothing to the transport and
\* returns True.
C2_UnknownRequestHandled ==
    (pc = "returned" /\ IsUnknownRequest(message)) => (sent = <<>> /\ result = "True")

\* C3: every eviction pass of a capacity check that found N > max_num_torrents
\* records, and whose deleteTorrent calls all succeeded, selected exactly
\* N - max_num_torrents + max_num_torrents/10 records, left N minus that many,
\* and (the last pass) left no record heavier than one it selected.
C3_EvictionCount ==
    \A i \in 1..Len(passes) :
        LET p == passes[i] IN
        (p.found > MaxNumTorrents /\ p.failed = {})
            => /\ Cardinality(p.selected)
                      = p.found - MaxNumTorrents + MaxNumTorrents \div 10
               /\ p.left = p.found - Cardinality(p.selected)
               /\ i = Len(passes)
                      => \A h \in DOMAIN torrent_db :
                             get_weight(torrent_db[h], now) <= p.cut

\* C4: when check_overflow returns from passes whose deleteTorrent calls all
\* succeeded, the index holds at most max_num_torrents +
\* ceil(max_num_torrents/10) records.
C4_CountBounded ==
    (pc = "write_torrent" /\ \A i \in 1..Len(passes) : passes[i].failed = {})
        => Records <= MaxNumTorrents + CeilDiv(MaxNumTorrents, 10)

\* check_overflow has returned from a second save or later that counted the
\* records again and ran one eviction pass, in which no deleteTorrent failed
C4_Witness ==
    /\ pc = "write_torrent"
    /\ recounted
    /\ Len(passes) = 1
    /\ passes[1].found = passes[1].counter
    /\ passes[1].failed = {}
    /\ Records <= MaxNumTorrents

\* C5: when save_torrent(h, m) has returned, having written its file,
\* find_torrent(h) gives a path and read_torrent of it gives m.
C5_RoundTrip ==
    (pc = "call_dlhelp_task" /\ wrote = "written")
        => LET torrent_path == find_torrent(torrent_db, files, message.torrent_hash)
           IN /\ torrent_path # None
              /\ read_torrent(files, torrent_path) = message.metadata

\* C6: in every state, also between the steps of a save and after a failed
\* write, read_torrent gives the bytes of the file each index record names
\* (a pass deletes a record and its file in one step: none is half deleted).
C6_RecordsReadable ==
    \A h \in DOMAIN torrent_db :
        read_torrent(files, torrent_db[h].torrent_name) # NoPayload

\* save_torrent(h, m) has returned, having written the timestamp-prefixed
\* file, while the hash-named file holds m from an earlier save of (h, m)
DuplicateSaved ==
    /\ pc = "call_dlhelp_task"
    /\ wrote = "written"
    /\ file_name.stamp # 0
    /\ FileName(message.torrent_hash, 0) \in DOMAIN files
    /\ files[FileName(message.torrent_hash, 0)] = message.metadata

\* C7: after the second save of the same (identifier, payload) the index has
\* a record for the identifier, every file stored for it validates against
\* it, and if check_overflow counted the records again (and no eviction pass
\* followed the count) num_torrents is the number of index records.
C7_DuplicateDelivery ==
    DuplicateSaved
        => /\ message.torrent_hash \in DOMAIN torrent_db
           /\ \A n \in DOMAIN files :
                 n.hash = message.torrent_hash
                     => valid_metadata(message.torrent_hash, files[n]) = "True"
           /\ (recounted /\ passes = <<>>) => num_torrents = Records

\* C8: every call of handleMessage returns a boolean.
C8_ReturnsBoolean ==
    pc = "returned" => result \in {"True", "False"}

C10_FailedWriteLeavesIndex ==
    (pc = "call_dlhelp_task" /\ wrote = "failed") => torrent_db = before

\* C12: when call_dlhelp_task fails after save_torrent has written its file,
\* the call returns False and the index store and the files stay as the save
\* left them.
C12_SaveNotRolledBack ==
    [][(pc = "call_dlhelp_task" /\ wrote = "written" /\ result' = "False")
          => (torrent_db' = torrent_db /\ files' = files)]_vars

\* the notification of a save has failed, and the record and the file of the
\* identifier are there
C12_Witness ==
    /\ pc = "returned"
    /\ message.t = "METADATA"
    /\ valid_metadata(message.torrent_hash, message.metadata) = "True"
    /\ result = "False"
    /\ notified = <<>>
    /\ find_torrent(torrent_db, files, message.torrent_hash) # None
    /\ read_torrent(files, find_torrent(torrent_db, files, message.torrent_hash))
           = message.metadata

\* C13: for every payload got_metadata hands to valid_metadata, decodable or
\* not, valid_metadata returns True or False and does not raise; it returns
\* True exactly when the hash of the info section is the identifier.
C13_FailsClosed ==
    (pc = "returned" /\ message.t = "METADATA" /\ message.enc = "ok"
         /\ isValidInfohash(message.torrent_hash))
        => LET v == valid_metadata(message.torrent_hash, message.metadata)
           IN /\ v \in {"True", "False"}
              /\ v = "True" <=> (/\ message.metadata.k = "torrent"
                                 /\ sha_bencode(message.metadata.info) = message.torrent_hash)

\* C16: whatever the handler has handed to the transport is one METADATA
\* message, the answer to the GET_METADATA being handled: addressed to the
\* peer that sent it, with the identifier asked for and the bytes read from
\* the file the index names for it.
C16_ResponseAnswersRequest ==
    /\ Len(sent) <= 1
    /\ sent # <<>>
         => /\ message.t = "GET_METADATA"
            /\ sent[1].permid = permid
            /\ sent[1].torrent_hash = message.torrent_hash
            /\ sent[1].metadata =
                   read_torrent(files, find_torrent(torrent_db, files, message.torrent_hash))

\* the second peer has been answered with the bytes of the timestamp-prefixed
\* file the index names, which are not those of the hash-named file
C16_Witness ==
    /\ pc = "returned"
    /\ result = "True"
    /\ permid = 2
    /\ Len(sent) = 1
    /\ torrent_db[message.torrent_hash].torrent_name.stamp # 0
    /\ FileName(message.torrent_hash, 0) \in DOMAIN files
    /\ sent[1].metadata # files[FileName(message.torrent_hash, 0)]

\* C17: every eviction pass ran on an index that held more than
\* max_num_torrents records when the pass began.
C17_EvictOnlyOverBudget ==
    \A i \in 1..Len(passes) : passes[i].found > MaxNumTorrents

\* C18: when check_overflow returns after an eviction pass, num_torrents is
\* the number of records in the index store.
C18_CounterResynchronized ==
    (pc = "write_torrent" /\ passes # <<>>) => num_torrents = Records

\* C19: when no save is under way, every file of the torrent directory is the
\* file an index record names.
C19_NoOrphanFile ==
    pc \in {"idle", "returned"}
        => \A n \in DOMAIN files :
               \E h \in DOMAIN torrent_db : torrent_db[h].torrent_name = n

\* C14: read_torrent gives the bytes of every file of at most 8 MiB and None
\* for every larger one, and a GET_METADATA for an identifier whose file is
\* larger than 8 MiB is answered by no METADATA message, one whose file is at
\* most 8 MiB by the file's bytes.
C14_SizeBoundary ==
    /\ \A n \in DOMAIN files :
          read_torrent(files, n) = IF files[n].size <= 8 * 1024 * 1024
                                   THEN files[n] ELSE NoPayload
    /\ (pc = "returned" /\ message.t = "GET_METADATA" /\ message.enc = "ok"
          /\ find_torrent(torrent_db, files, message.torrent_hash) # None)
         => LET f == files[find_torrent(torrent_db, files, message.torrent_hash)]
            IN IF f.size >= 8 * 1024 * 1024 + 1
               THEN sent = <<>>
               ELSE Len(sent) = 1 /\ sent[1].metadata = f

\* a request for a file of exactly 8 MiB has been answered with its bytes,
\* while read_torrent gives None for another file, of 8 MiB + 1 byte
C14_Witness ==
    /\ pc = "returned"
    /\ message.t = "GET_METADATA"
    /\ Len(sent) = 1
    /\ sent[1].metadata.size = 8 * 1024 * 1024
    /\ \E n \in DOMAIN files :
          files[n].size = 8 * 1024 * 1024 + 1 /\ read_torrent(files, n) = NoPayload

\* the rank of a status in the eviction order: good 0, unknown 1, dead and
\* anything else 2
StatusRank(status) ==
    IF status = "good" THEN 0 ELSE IF status = "unknown" THEN 1 ELSE 2

\* C20: an eviction pass whose deleteTorrent calls all succeeded has removed
\* no record while keeping one of a higher status rank (dead or unrecognized
\* over unknown over good), whatever the retry_number, relevance and creation
\* date of the two, a creation date after the current time included.
C20_StatusOrder ==
    \A i \in 1..Len(passes) :
        passes[i].failed = {}
            => \A r \in passes[i].removed \cap DOMAIN before :
                   \A q \in DOMAIN torrent_db \cap DOMAIN before :
                       StatusRank(before[q].status) <= StatusRank(before[r].status)

\* C15: after any sequence of add_items and reset calls no two rows of
\* data_items have the same unique id.
C15_NoDuplicateRows ==
    \A i, j \in 1..Len(data_items) :
        get_item_uid(data_items[i]) = get_item_uid(data_items[j]) => i = j

\* save_torrent(h, Torrent(h, 1)) run alone from state s of the index store,
\* the files and num_torrents, no deleteTorrent failing: the states it ends in
SerialSave(s, h) ==
    LET name == get_filename(s.fs, h, now)
        added == CheckState(addTorrent(s.db, h, NewTorrent(name, Torrent(h, 1))),
                            s.fs, s.num)
    IN {CheckState(r.db, write_torrent(r.fs, Torrent(h, 1), name, "written"), r.num) :
            r \in {c \in check_overflow(added, now, TRUE) :
                       \A i \in 1..Len(c.passes) : c.passes[i].failed = {}}}

\* the saves of the two threads run one after the other, in either order,
\* from the state after register()
SerialOutcomes ==
    LET fs0 == [n \in {FileName(h, 0) : h \in DOMAIN before} |-> InitPayload(n.hash)]
        s0 == CheckState(before, fs0, -1)
    IN UNION {UNION {SerialSave(s1, 3 - h) : s1 \in SerialSave(s0, h)} : h \in Threads}

AllDone == \A t \in Threads : thr[t].pc = "done"

\* C11: when the saves of two threads for distinct identifiers are done, the
\* index holds no fewer records than after the same saves run one after the
\* other, and num_torrents has a value it has after such a run: no increment
\* is lost and no eviction pass deletes what a serial execution keeps.
C11_AsIfSerial ==
    (thr # <<>> /\ AllDone)
        => /\ \E r \in SerialOutcomes : Records >= Cardinality(DOMAIN r.db)
           /\ \E r \in SerialOutcomes : num_torrents = r.num

\* C21: after any sequence of add_items and reset calls item_uid_map has an
\* entry for the unique id of every row of data_items, and the entry is the
\* row's index (rows are counted from 0), and it has no other entry.
C21_ReverseMapping ==
    /\ \A i \in 1..Len(data_items) :
          LET item_uid == get_item_uid(data_items[i])
          IN item_uid \in DOMAIN item_uid_map /\ item_uid_map[item_uid] = i - 1
    /\ \A uid \in DOMAIN item_uid_map :
          \E i \in 1..Len(data_items) : get_item_uid(data_items[i]) = uid

\* C22: in every state of the table, update_torrent_info(update_dict) gives
\* the rows whose infohash is update_dict['infohash'] the values of update_dict,
\* row 0 included, and leaves every other row as it was; with no such row
\* nothing changes.
C22_UpdateApplied ==
    \A update_dict \in UpdateDicts :
        LET updated == update_torrent_info(data_items, item_uid_map, update_dict)
        IN /\ Len(updated) = Len(data_items)
           /\ \A i \in 1..Len(data_items) :
                 updated[i] = IF get_item_uid(data_items[i]) = update_dict.infohash
                              THEN [infohash |-> update_dict.infohash,
                                    health |-> update_dict.health]
                              ELSE data_items[i]

====
